---- MODULE Spec2Model ----
(***************************************************************************)
(* Warehouse inventory tool: the entities (models.py), the warehouse       *)
(* state manager (service.py) and the durable store (storage.py), run by   *)
(* several operating-system processes that share one state file, one       *)
(* temporary file and one advisory lock file.                              *)
(***************************************************************************)
EXTENDS Integers, FiniteSets, Sequences, TLC

\* ------------------------------------------------------------------ bounds
\* Largest quantity a command carries and a record is allowed to reach.
MaxQty == 2
\* Manager operations the processes run in all before the input ends.
MaxOps == 2
\* Failed lock polls after which the wait has exceeded LOCK_TIMEOUT.
MaxPolls == 1
\* Largest sum a run of increments of one item reaches.
MaxSum == 4

\* ------------------------------------------------------------------ inputs
Procs == {"p1", "p2"}
LocIds == {"A", "B"}
\* The item ids, in the ascending order of Python's string comparison.
IdOrder == <<"IA", "IB">>
ItemIds == {IdOrder[k] : k \in DOMAIN IdOrder}
\* The item ids the commands of the processes carry.
CommandItems == {"IA"}
\* An identifier that fails the isalnum() validation of the entities.
BadId == "x-1"
Quantities == 0..MaxQty

\* ------------------------------------------------------------------ dicts
NoDict == [x \in {} |-> 0]

Put(f, k, v) == [x \in (DOMAIN f) \cup {k} |-> IF x = k THEN v ELSE f[x]]

Del(f, k) == [x \in (DOMAIN f) \ {k} |-> f[x]]

\* ------------------------------------------------------------------ models.py
ValidId(s) == s \in LocIds \cup ItemIds

\* InventoryItem(...): the record, or a ValueError from __post_init__.
NewItem(item_id, quantity) ==
    IF ~ValidId(item_id) \/ quantity <= 0
    THEN [err |-> "ValueError", item |-> NoDict]
    ELSE [err |-> "none", item |-> [item_id |-> item_id, quantity |-> quantity]]

\* Location(location_id=...): the record, or a ValueError from __post_init__.
NewLocation(location_id) ==
    IF ~ValidId(location_id)
    THEN [err |-> "ValueError", loc |-> NoDict]
    ELSE [err |-> "none", loc |-> [location_id |-> location_id, inventory |-> NoDict]]

has_inventory(loc) == Cardinality(DOMAIN loc.inventory) > 0

get_item_quantity(loc, item_id) ==
    IF item_id \in DOMAIN loc.inventory THEN loc.inventory[item_id].quantity ELSE 0

\* add_item with the quantity assigned where it is to be added.
add_item_assigns(loc, item_id, quantity) ==
    LET n == NewItem(item_id, quantity) IN
    IF n.err # "none"
    THEN [err |-> n.err, loc |-> loc]
    ELSE [err |-> "none", loc |-> [loc EXCEPT !.inventory = Put(@, item_id, n.item)]]

add_item(loc, item_id, quantity) ==
    IF item_id \in DOMAIN loc.inventory
    THEN [err |-> "none",
          loc |-> [loc EXCEPT !.inventory[item_id].quantity = @ + quantity]]
    ELSE LET n == NewItem(item_id, quantity) IN
         IF n.err # "none"
         THEN [err |-> n.err, loc |-> loc]
         ELSE [err |-> "none",
               loc |-> [loc EXCEPT !.inventory = Put(@, item_id, n.item)]]

\* remove_item that keeps the record when nothing is left of the item.
remove_item_keeps_zero(loc, item_id, quantity) ==
    IF item_id \notin DOMAIN loc.inventory
    THEN [err |-> "KeyError", loc |-> loc]
    ELSE IF quantity > loc.inventory[item_id].quantity
    THEN [err |-> "ValueError", loc |-> loc]
    ELSE [err |-> "none", loc |-> [loc EXCEPT !.inventory[item_id].quantity = @ - quantity]]

remove_item(loc, item_id, quantity) ==
    IF item_id \notin DOMAIN loc.inventory
    THEN [err |-> "KeyError", loc |-> loc]
    ELSE LET current_quantity == loc.inventory[item_id].quantity
             new_quantity == current_quantity - quantity
         IN  IF quantity > current_quantity
             THEN [err |-> "ValueError", loc |-> loc]
             ELSE IF new_quantity = 0
             THEN [err |-> "none", loc |-> [loc EXCEPT !.inventory = Del(@, item_id)]]
             ELSE [err |-> "none",
                   loc |-> [loc EXCEPT !.inventory[item_id].quantity = new_quantity]]

ItemToDict(item) == [item_id |-> item.item_id, quantity |-> item.quantity]

LocationToDict(loc) ==
    [location_id |-> loc.location_id,
     inventory |-> [i \in DOMAIN loc.inventory |-> ItemToDict(loc.inventory[i])]]

\* InventoryItem.from_dict: the constructor validates the persisted record.
ItemFromDict(data) == NewItem(data.item_id, data.quantity)

\* sorted(..., reverse=True): the records, descending by id.
get_sorted_items_reversed(loc) ==
    LET present == {k \in DOMAIN IdOrder : IdOrder[k] \in DOMAIN loc.inventory}
        nth[n \in 0..Cardinality(present)] ==
            IF n = 0 THEN Len(IdOrder) + 1
            ELSE CHOOSE k \in present :
                     /\ k < nth[n - 1]
                     /\ \A j \in present : j < nth[n - 1] => k >= j
    IN  [n \in 1..Cardinality(present) |-> loc.inventory[IdOrder[nth[n]]]]

\* sorted(self.inventory.values(), key=item_id): the records, ascending by id.
get_sorted_items(loc) ==
    LET present == {k \in DOMAIN IdOrder : IdOrder[k] \in DOMAIN loc.inventory}
        nth[n \in 0..Cardinality(present)] ==
            IF n = 0 THEN 0
            ELSE CHOOSE k \in present :
                     /\ k > nth[n - 1]
                     /\ \A j \in present : j > nth[n - 1] => k <= j
    IN  [n \in 1..Cardinality(present) |-> loc.inventory[IdOrder[nth[n]]]]

LocationFromDict(data) ==
    LET made == NewLocation(data.location_id)
        items == [i \in DOMAIN data.inventory |-> ItemFromDict(data.inventory[i])]
    IN  IF made.err # "none" \/ \E i \in DOMAIN items : items[i].err # "none"
        THEN [err |-> "ValueError", loc |-> NoDict]
        ELSE [err |-> "none",
              loc |-> [location_id |-> data.location_id,
                       inventory |-> [i \in DOMAIN items |-> items[i].item]]]

\* ------------------------------------------------------------------ service.py
\* What a manager operation has done when it reaches _save_state or raises:
\* the error it raises ("none" when it goes on to persist), the map as the
\* operation left it, and whether _save_state is called.
Outcome(err, locations, save, requested, available) ==
    [err |-> err, locations |-> locations, save |-> save,
     requested |-> requested, available |-> available]

\* LocationNotFoundError(location_id): the error names the missing location.
NotFound(locations, location_id) ==
    [err |-> "LocationNotFound", locations |-> locations, save |-> FALSE,
     requested |-> 0, available |-> 0, location |-> location_id]

\* register_location without the test for an existing location: the location
\* is made anew.
register_location_overwrites(locations, location_id) ==
    LET made == NewLocation(location_id) IN
    IF made.err # "none"
    THEN Outcome(made.err, locations, FALSE, 0, 0)
    ELSE Outcome("none", Put(locations, location_id, made.loc), TRUE, 0, 0)

register_location(locations, location_id) ==
    IF location_id \in DOMAIN locations
    THEN Outcome("LocationAlreadyExists", locations, FALSE, 0, 0)
    ELSE LET made == NewLocation(location_id) IN
         IF made.err # "none"
         THEN Outcome(made.err, locations, FALSE, 0, 0)
         ELSE Outcome("none", Put(locations, location_id, made.loc), TRUE, 0, 0)

\* unregister_location without the test of has_inventory.
unregister_location_unchecked(locations, location_id) ==
    IF location_id \notin DOMAIN locations
    THEN Outcome("LocationNotFound", locations, FALSE, 0, 0)
    ELSE Outcome("none", Del(locations, location_id), TRUE, 0, 0)

\* unregister_location returning after the del, _save_state left out.
unregister_location_unsaved(locations, location_id) ==
    IF location_id \notin DOMAIN locations
    THEN Outcome("LocationNotFound", locations, FALSE, 0, 0)
    ELSE IF has_inventory(locations[location_id])
    THEN Outcome("LocationHasInventory", locations, FALSE, 0, 0)
    ELSE Outcome("none", Del(locations, location_id), FALSE, 0, 0)

unregister_location(locations, location_id) ==
    IF location_id \notin DOMAIN locations
    THEN Outcome("LocationNotFound", locations, FALSE, 0, 0)
    ELSE IF has_inventory(locations[location_id])
    THEN Outcome("LocationHasInventory", locations, FALSE, 0, 0)
    ELSE Outcome("none", Del(locations, location_id), TRUE, 0, 0)

increment_inventory(locations, location_id, item_id, quantity) ==
    IF location_id \notin DOMAIN locations
    THEN NotFound(locations, location_id)
    ELSE IF quantity <= 0
    THEN Outcome("ValueError", locations, FALSE, 0, 0)
    ELSE LET added == add_item(locations[location_id], item_id, quantity) IN
         IF added.err # "none"
         THEN Outcome(added.err, locations, FALSE, 0, 0)
         ELSE Outcome("none", [locations EXCEPT ![location_id] = added.loc], TRUE, 0, 0)

\* decrement_inventory looking for the item before it tests the quantity.
decrement_inventory_item_first(locations, location_id, item_id, quantity) ==
    IF location_id \notin DOMAIN locations
    THEN NotFound(locations, location_id)
    ELSE IF item_id \notin DOMAIN locations[location_id].inventory
    THEN Outcome("ItemNotFound", locations, FALSE, 0, 0)
    ELSE IF quantity <= 0
    THEN Outcome("ValueError", locations, FALSE, 0, 0)
    ELSE LET available == get_item_quantity(locations[location_id], item_id) IN
         IF quantity > available
         THEN Outcome("InsufficientQuantity", locations, FALSE, quantity, available)
         ELSE LET removed == remove_item(locations[location_id], item_id, quantity) IN
              Outcome("none", [locations EXCEPT ![location_id] = removed.loc], TRUE, 0, 0)

\* decrement_inventory raising InsufficientQuantityError with the two amounts
\* in the wrong order.
decrement_inventory_swapped(locations, location_id, item_id, quantity) ==
    IF location_id \notin DOMAIN locations
    THEN Outcome("LocationNotFound", locations, FALSE, 0, 0)
    ELSE IF quantity <= 0
    THEN Outcome("ValueError", locations, FALSE, 0, 0)
    ELSE IF item_id \notin DOMAIN locations[location_id].inventory
    THEN Outcome("ItemNotFound", locations, FALSE, 0, 0)
    ELSE LET available == get_item_quantity(locations[location_id], item_id) IN
         IF quantity > available
         THEN Outcome("InsufficientQuantity", locations, FALSE, available, quantity)
         ELSE LET removed == remove_item(locations[location_id], item_id, quantity) IN
              Outcome("none", [locations EXCEPT ![location_id] = removed.loc], TRUE, 0, 0)

decrement_inventory(locations, location_id, item_id, quantity) ==
    IF location_id \notin DOMAIN locations
    THEN NotFound(locations, location_id)
    ELSE IF quantity <= 0
    THEN Outcome("ValueError", locations, FALSE, 0, 0)
    ELSE IF item_id \notin DOMAIN locations[location_id].inventory
    THEN Outcome("ItemNotFound", locations, FALSE, 0, 0)
    ELSE LET available == get_item_quantity(locations[location_id], item_id) IN
         IF quantity > available
         THEN Outcome("InsufficientQuantity", locations, FALSE, quantity, available)
         ELSE LET removed == remove_item(locations[location_id], item_id, quantity) IN
              IF removed.err = "KeyError"
              THEN Outcome("ItemNotFound", locations, FALSE, 0, 0)
              ELSE IF removed.err = "ValueError"
              THEN Outcome("InsufficientQuantity", locations, FALSE, quantity, available)
              ELSE Outcome("none", [locations EXCEPT ![location_id] = removed.loc],
                           TRUE, 0, 0)

\* transfer_inventory persisting after the removal, the addition left out.
transfer_inventory_debit_only(locations, src_id, dest_location_id, item_id, quantity) ==
    LET o == decrement_inventory(locations, src_id, item_id, quantity) IN
    IF dest_location_id \notin DOMAIN locations
    THEN Outcome("LocationNotFound", locations, FALSE, 0, 0)
    ELSE o

\* transfer_inventory looking for the destination only after the removal.
transfer_inventory_late_check(locations, src_id, dest_location_id, item_id, quantity) ==
    LET o == decrement_inventory(locations, src_id, item_id, quantity) IN
    IF o.err # "none"
    THEN o
    ELSE IF dest_location_id \notin DOMAIN locations
    THEN Outcome("LocationNotFound", o.locations, FALSE, 0, 0)
    ELSE LET added == add_item(o.locations[dest_location_id], item_id, quantity) IN
         Outcome("none", [o.locations EXCEPT ![dest_location_id] = added.loc],
                 TRUE, 0, 0)

\* transfer_inventory adding to a copy of the destination taken before the
\* removal.
transfer_inventory_copied_dest(locations, src_location_id, dest_location_id, item_id, quantity) ==
    IF src_location_id \notin DOMAIN locations
    THEN NotFound(locations, src_location_id)
    ELSE IF dest_location_id \notin DOMAIN locations
    THEN NotFound(locations, dest_location_id)
    ELSE IF quantity <= 0
    THEN Outcome("ValueError", locations, FALSE, 0, 0)
    ELSE IF item_id \notin DOMAIN locations[src_location_id].inventory
    THEN Outcome("ItemNotFound", locations, FALSE, 0, 0)
    ELSE LET available == get_item_quantity(locations[src_location_id], item_id) IN
         IF quantity > available
         THEN Outcome("InsufficientQuantity", locations, FALSE, quantity, available)
         ELSE LET removed == remove_item(locations[src_location_id], item_id, quantity)
                  debited == [locations EXCEPT ![src_location_id] = removed.loc]
                  added == add_item(locations[dest_location_id], item_id, quantity)
              IN  IF removed.err # "none"
                  THEN Outcome(removed.err, locations, FALSE, 0, 0)
                  ELSE IF added.err # "none"
                  THEN Outcome(added.err, debited, FALSE, 0, 0)
                  ELSE Outcome("none", [debited EXCEPT ![dest_location_id] = added.loc],
                               TRUE, 0, 0)

transfer_inventory(locations, src_location_id, dest_location_id, item_id, quantity) ==
    IF src_location_id \notin DOMAIN locations
    THEN NotFound(locations, src_location_id)
    ELSE IF dest_location_id \notin DOMAIN locations
    THEN NotFound(locations, dest_location_id)
    ELSE IF quantity <= 0
    THEN Outcome("ValueError", locations, FALSE, 0, 0)
    ELSE IF item_id \notin DOMAIN locations[src_location_id].inventory
    THEN Outcome("ItemNotFound", locations, FALSE, 0, 0)
    ELSE LET available == get_item_quantity(locations[src_location_id], item_id) IN
         IF quantity > available
         THEN Outcome("InsufficientQuantity", locations, FALSE, quantity, available)
         ELSE LET removed == remove_item(locations[src_location_id], item_id, quantity)
                  debited == [locations EXCEPT ![src_location_id] = removed.loc]
                  \* dest_location was bound before the removal, but it is the
                  \* same object as src_location when the two ids are equal
                  added == add_item(debited[dest_location_id], item_id, quantity)
              IN  IF removed.err # "none"
                  THEN Outcome(removed.err, locations, FALSE, 0, 0)
                  ELSE IF added.err # "none"
                  THEN Outcome(added.err, debited, FALSE, 0, 0)
                  ELSE Outcome("none", [debited EXCEPT ![dest_location_id] = added.loc],
                               TRUE, 0, 0)

\* ------------------------------------------------------------------ controller.py
\* The decimal texts of the quantities 0, 1, 2, ... a command line carries.
Numerals == <<"0", "1", "2", "3">>

QuantityText(q) == Numerals[q + 1]

\* str.upper() of the words the command lines use.
Upper(word) ==
    CASE word = "location" -> "LOCATION"
      [] word = "inventory" -> "INVENTORY"
      [] word = "observe" -> "OBSERVE"
      [] OTHER -> word

\* What the parsing of a command line comes to: the error it raises, or the
\* manager operation to call and its arguments.
Request(err, op, src, dst, item, qty) ==
    [err |-> err, op |-> op, src |-> src, dst |-> dst, item |-> item, qty |-> qty]

Invalid == Request("InvalidCommand", "none", "", "", "", 0)

\* _validate_identifier: non-empty, and alphanumeric once underscores are
\* taken out (the test the entities apply too).
validate_identifier(identifier) == identifier # "" /\ ValidId(identifier)

\* _parse_quantity: int(qty_str), or the error for a text that is no integer
\* or an integer that is not positive.
parse_quantity(qty_str) ==
    IF \E k \in DOMAIN Numerals : Numerals[k] = qty_str
    THEN LET quantity == (CHOOSE k \in DOMAIN Numerals : Numerals[k] = qty_str) - 1
         IN  IF quantity <= 0
             THEN [err |-> "InvalidCommand", quantity |-> 0]
             ELSE [err |-> "none", quantity |-> quantity]
    ELSE [err |-> "InvalidCommand", quantity |-> 0]

handle_location_command(operation, args) ==
    IF operation \in {"REGISTER", "UNREGISTER"}
    THEN IF Len(args) # 1 THEN Invalid
         ELSE IF ~validate_identifier(args[1]) THEN Invalid
         ELSE Request("none", IF operation = "REGISTER" THEN "register" ELSE "unregister",
                      args[1], "", "", 0)
    ELSE Invalid

handle_inventory_command(operation, args) ==
    IF operation \in {"INCREMENT", "DECREMENT"}
    THEN IF Len(args) # 3 THEN Invalid
         ELSE IF ~validate_identifier(args[1]) THEN Invalid
         ELSE IF ~validate_identifier(args[2]) THEN Invalid
         ELSE LET parsed == parse_quantity(args[3]) IN
              IF parsed.err # "none" THEN Invalid
              ELSE Request("none",
                           IF operation = "INCREMENT" THEN "increment" ELSE "decrement",
                           args[1], "", args[2], parsed.quantity)
    ELSE IF operation = "TRANSFER"
    THEN IF Len(args) # 4 THEN Invalid
         ELSE IF ~validate_identifier(args[1]) THEN Invalid
         ELSE IF ~validate_identifier(args[2]) THEN Invalid
         ELSE IF ~validate_identifier(args[3]) THEN Invalid
         ELSE LET parsed == parse_quantity(args[4]) IN
              IF parsed.err # "none" THEN Invalid
              ELSE Request("none", "transfer", args[1], args[2], args[3], parsed.quantity)
    ELSE IF operation = "OBSERVE"
    THEN IF Len(args) # 1 THEN Invalid
         ELSE IF ~validate_identifier(args[1]) THEN Invalid
         ELSE Request("none", "observe", args[1], "", "", 0)
    ELSE Invalid

\* execute_command, lines 37-56: the words of the line (split() has dropped
\* the blanks) routed to a handler; a blank line is answered at once.
execute_command(tokens) ==
    IF Len(tokens) = 0 THEN Request("blank", "none", "", "", "", 0)
    ELSE IF Len(tokens) < 2 THEN Invalid
    ELSE LET domain == Upper(tokens[1])
             operation == Upper(tokens[2])
             args == SubSeq(tokens, 3, Len(tokens))
         IN  IF domain = "LOCATION" THEN handle_location_command(operation, args)
             ELSE IF domain = "INVENTORY" THEN handle_inventory_command(operation, args)
             ELSE Invalid

\* The errors derived from WarehouseError.
WarehouseErrors ==
    {"LocationAlreadyExists", "LocationNotFound", "LocationHasInventory",
     "ItemNotFound", "InsufficientQuantity", "InvalidCommand", "StorageError"}

\* An adapter whose first except clause names InvalidCommandError alone.
CaughtInvalidCommandOnly(kind) ==
    IF kind = "InvalidCommand" THEN "WarehouseError" ELSE "none"

\* The except clause of execute_command that takes an error, lines 58-63.
Caught(kind) ==
    IF kind \in WarehouseErrors THEN "WarehouseError"
    ELSE IF kind = "ValueError" THEN "ValueError"
    ELSE "Exception"

\* _format_error: the words of the one-line reply.
format_error(message) == <<"ERR:">> \o message

\* _format_observe_response: EMPTY, or one line per record, sorted by id.
format_observe_response(items) ==
    IF Len(items) = 0 THEN << <<"EMPTY">> >>
    ELSE LET ids == {items[n].item_id : n \in DOMAIN items}
             sorted_items ==
                 get_sorted_items(
                     [inventory |->
                         [i \in ids |->
                             items[CHOOSE n \in DOMAIN items : items[n].item_id = i]]])
         IN  [n \in DOMAIN sorted_items |->
                 <<"ITEM", sorted_items[n].item_id, QuantityText(sorted_items[n].quantity)>>]

\* What execute_command hands back for a command whose handling ended in
\* result: the lines of the reply, or the error that leaves the method.
Reply(op, result) ==
    IF result.kind = "blank" THEN [raised |-> FALSE, lines |-> <<>>]
    ELSE IF result.kind = "OK"
    THEN [raised |-> FALSE,
          lines |-> IF op = "observe" THEN format_observe_response(result.items)
                    ELSE << <<"OK">> >>]
    ELSE IF Caught(result.kind) = "none" THEN [raised |-> TRUE, lines |-> <<>>]
    ELSE [raised |-> FALSE,
          lines |-> << format_error(IF Caught(result.kind) = "Exception"
                                    THEN <<"Unexpected error:", result.kind>>
                                    ELSE <<result.kind>>) >>]

\* ------------------------------------------------------------------ storage.py
\* A file of the shared directory: "missing", "empty" (size 0), "partial" (a
\* proper prefix of a JSON text), "garbled" (text written after older content)
\* or "full" (the whole JSON text of doc).
File(kind, doc) == [kind |-> kind, doc |-> doc]

Missing == File("missing", NoDict)

\* A snapshot in which only the locations that hold inventory are written.
SerializeStocked(locations) ==
    [locations |->
        [l \in {k \in DOMAIN locations : has_inventory(locations[k])} |->
            LocationToDict(locations[l])]]

\* save, lines 89-94: the JSON document of a map of locations.
Serialize(locations) ==
    [locations |-> [l \in DOMAIN locations |-> LocationToDict(locations[l])]]

\* load with the test of the size left out: an empty file goes to json.load.
LoadWithoutSizeCheck(file) ==
    IF file.kind = "missing"
    THEN [err |-> "none", locations |-> NoDict]
    ELSE IF file.kind \in {"empty", "partial", "garbled"}
    THEN [err |-> "JSONDecodeError", locations |-> NoDict]
    ELSE LET data == file.doc.locations
             made == [l \in DOMAIN data |-> LocationFromDict(data[l])]
         IN  IF \E l \in DOMAIN made : made[l].err # "none"
             THEN [err |-> "ValueError", locations |-> NoDict]
             ELSE [err |-> "none", locations |-> [l \in DOMAIN made |-> made[l].loc]]

\* load, lines 52-64, once the lock is held: the map the target decodes to,
\* or the error the read raises.
Load(file) ==
    IF file.kind \in {"missing", "empty"}
    THEN [err |-> "none", locations |-> NoDict]
    ELSE IF file.kind \in {"partial", "garbled"}
    THEN [err |-> "JSONDecodeError", locations |-> NoDict]
    ELSE LET data == file.doc.locations
             made == [l \in DOMAIN data |-> LocationFromDict(data[l])]
         IN  IF \E l \in DOMAIN made : made[l].err # "none"
             THEN [err |-> "ValueError", locations |-> NoDict]
             ELSE [err |-> "none", locations |-> [l \in DOMAIN made |-> made[l].loc]]

\* ------------------------------------------------------------------ state
VARIABLES
    target,   \* the state file (file_path)
    temp,     \* the temporary file (file_path with suffix .tmp)
    lock,     \* the process holding the lock file, or "free"
    pc,       \* where each process is
    mem,      \* WarehouseService.locations of each process
    cur,      \* the manager call each process is in, or was last in
    res,      \* how that call ended ("pending" until it returns)
    waited,   \* failed polls of the lock in the current store call
    ops,      \* manager operations run so far, over all processes
    disk0     \* the target file as it was when the current save was called

vars == <<target, temp, lock, pc, mem, cur, res, waited, ops, disk0>>

Call(op, src, dst, item, qty, pre) ==
    [op |-> op, src |-> src, dst |-> dst, item |-> item, qty |-> qty, pre |-> pre]

NoCall == Call("none", "", "", "", 0, NoDict)

\* How a call ended: the error kind (or "OK"), the amounts an
\* InsufficientQuantityError carries, the items observe_inventory returns, and
\* in detail for a StorageError which except clause raised it, for the
\* LocationNotFoundError of a stock operation the location it names.
Result(kind, requested, available, items) ==
    [kind |-> kind, requested |-> requested, available |-> available,
     items |-> items, detail |-> ""]

Plain(kind) == Result(kind, 0, 0, <<>>)

StorageError(detail) == [Plain("StorageError") EXCEPT !.detail = detail]

LoadPcs == {"l_acq", "l_read"}
SavePcs == {"s_acq", "s_open", "s_write", "s_close", "s_replace"}
\* Between acquiring and releasing the lock.
CriticalPcs == {"l_read", "s_open", "s_write", "s_close", "s_replace"}

\* A state file left by an earlier run: location A holding 2 of IA, B empty.
Seeded ==
    LET a == [location_id |-> "A",
              inventory |-> [i \in {"IA"} |-> [item_id |-> "IA", quantity |-> 2]]]
        b == [location_id |-> "B", inventory |-> NoDict]
    IN  [l \in {"A", "B"} |-> IF l = "A" THEN a ELSE b]

\* The state before any process has started, over a given state file.
Start(file) ==
    /\ target = file
    /\ temp = Missing
    /\ lock = "free"
    /\ pc = [p \in Procs |-> "start"]
    /\ mem = [p \in Procs |-> NoDict]
    /\ cur = [p \in Procs |-> NoCall]
    /\ res = [p \in Procs |-> Plain("none")]
    /\ waited = [p \in Procs |-> 0]
    /\ ops = 0
    /\ disk0 = [p \in Procs |-> Missing]

\* No state file yet, or the one an earlier run left.
Init == \E file \in {Missing, File("full", Serialize(Seeded))} : Start(file)

\* The JSON text of Seeded with the quantity edited to 0.
Spoiled == [Serialize(Seeded) EXCEPT !.locations["A"].inventory["IA"].quantity = 0]

\* The state file may also have been emptied, cut short or edited by hand.
InitAnyFile ==
    \E file \in {Missing, File("full", Serialize(Seeded)), File("empty", NoDict),
                  File("garbled", NoDict), File("full", Spoiled)} : Start(file)

\* ------------------------------------------------------------------ the lock
\* A lock file of the process's own: every poll succeeds.
AcquirableAlways(p) == TRUE

\* filelock's acquire loop (entered by `with self._lock`): one poll takes the
\* lock when no process holds it.
Acquirable(p) == lock = "free"

\* A lock built without a timeout: the wait never ends in Timeout.
TimedOutNever(p) == FALSE

\* The wait has exceeded lock_timeout: Timeout is raised.
TimedOut(p) == waited[p] >= MaxPolls

\* The lock acquired by hand and not released when the call is left.
ReleasedNot(p) == lock

\* The lock file after the `with self._lock` block of p is left.
Released(p) == IF lock = p THEN "free" ELSE lock

\* ------------------------------------------------------------------ FileStorage.load
\* WarehouseService.__init__: the manager starts _load_state.
Construct(p) ==
    /\ pc[p] = "start"
    /\ pc' = [pc EXCEPT ![p] = "l_acq"]
    /\ cur' = [cur EXCEPT ![p] = Call("load", "", "", "", 0, NoDict)]
    /\ res' = [res EXCEPT ![p] = Plain("pending")]
    /\ waited' = [waited EXCEPT ![p] = 0]
    /\ UNCHANGED <<target, temp, lock, mem, ops, disk0>>

\* One poll of the lock by load. A manager whose load fails is never built:
\* main() lets the StorageError end the process.
LoadPoll(p) ==
    /\ pc[p] = "l_acq"
    /\ IF Acquirable(p)
       THEN /\ lock' = p
            /\ pc' = [pc EXCEPT ![p] = "l_read"]
            /\ waited' = [waited EXCEPT ![p] = 0]
            /\ UNCHANGED res
       ELSE IF TimedOut(p)
       THEN /\ res' = [res EXCEPT ![p] = StorageError("lock")]
            /\ pc' = [pc EXCEPT ![p] = "exited"]
            /\ waited' = [waited EXCEPT ![p] = 0]
            /\ UNCHANGED lock
       ELSE /\ waited' = [waited EXCEPT ![p] = IF @ < MaxPolls THEN @ + 1 ELSE @]
            /\ UNCHANGED <<lock, pc, res>>
    /\ UNCHANGED <<target, temp, mem, cur, ops, disk0>>

\* The body of load under the lock: the early return, or read, parse, rebuild.
LoadRead(p) ==
    /\ pc[p] = "l_read"
    /\ LET r == Load(target) IN
       IF r.err = "none"
       THEN /\ mem' = [mem EXCEPT ![p] = r.locations]
            /\ res' = [res EXCEPT ![p] = Plain("OK")]
            /\ pc' = [pc EXCEPT ![p] = "idle"]
       ELSE /\ res' = [res EXCEPT ![p] =
                        StorageError(IF r.err = "JSONDecodeError" THEN "json" ELSE "data")]
            /\ pc' = [pc EXCEPT ![p] = "exited"]
            /\ UNCHANGED mem
    /\ lock' = Released(p)
    /\ UNCHANGED <<target, temp, cur, waited, ops, disk0>>

\* open() or read() raises IOError/OSError; a file that is missing or empty
\* is not opened.
LoadFail(p) ==
    /\ pc[p] = "l_read"
    /\ target.kind \notin {"missing", "empty"}
    /\ res' = [res EXCEPT ![p] = StorageError("io")]
    /\ pc' = [pc EXCEPT ![p] = "exited"]
    /\ lock' = Released(p)
    /\ UNCHANGED <<target, temp, mem, cur, waited, ops, disk0>>

\* ------------------------------------------------------------------ manager calls
\* No record of the map an operation leaves exceeds MaxQty (the model's cap).
WithinCap(locations) ==
    \A l \in DOMAIN locations : \A i \in DOMAIN locations[l].inventory :
        locations[l].inventory[i].quantity <= MaxQty

\* A manager operation from its first line to the call of _save_state (the
\* map is already changed then) or to the exception it raises.
Begin(p, call, o) ==
    /\ pc[p] = "idle"
    /\ ops < MaxOps
    /\ WithinCap(o.locations)
    /\ ops' = ops + 1
    /\ mem' = [mem EXCEPT ![p] = o.locations]
    /\ cur' = [cur EXCEPT ![p] = call]
    /\ IF o.save
       THEN /\ pc' = [pc EXCEPT ![p] = "s_acq"]
            /\ res' = [res EXCEPT ![p] = Plain("pending")]
            /\ waited' = [waited EXCEPT ![p] = 0]
            /\ disk0' = [disk0 EXCEPT ![p] = target]
       ELSE /\ res' = [res EXCEPT ![p] =
                        [Result(o.err, o.requested, o.available, <<>>)
                            EXCEPT !.detail = IF "location" \in DOMAIN o
                                              THEN o.location ELSE ""]]
            /\ UNCHANGED <<pc, waited, disk0>>
    /\ UNCHANGED <<target, temp, lock>>

Register(p) ==
    \E l \in LocIds \cup {BadId} :
        Begin(p, Call("register", l, "", "", 0, mem[p]), register_location(mem[p], l))

Unregister(p) ==
    \E l \in LocIds :
        Begin(p, Call("unregister", l, "", "", 0, mem[p]), unregister_location(mem[p], l))

Increment(p) ==
    \E l \in LocIds, i \in CommandItems \cup {BadId}, q \in Quantities :
        Begin(p, Call("increment", l, "", i, q, mem[p]),
              increment_inventory(mem[p], l, i, q))

Decrement(p) ==
    \E l \in LocIds, i \in CommandItems, q \in Quantities :
        Begin(p, Call("decrement", l, "", i, q, mem[p]),
              decrement_inventory(mem[p], l, i, q))

Transfer(p) ==
    \E a \in LocIds, b \in LocIds, i \in CommandItems, q \in Quantities :
        Begin(p, Call("transfer", a, b, i, q, mem[p]),
              transfer_inventory(mem[p], a, b, i, q))

\* An observe_inventory that reads the state file when it holds a snapshot.
ObserveReloaded(p) ==
    \E l \in LocIds :
        LET locations == IF target.kind = "full" /\ Load(target).err = "none"
                         THEN Load(target).locations ELSE mem[p]
        IN  /\ pc[p] = "idle"
            /\ ops < MaxOps
            /\ ops' = ops + 1
            /\ cur' = [cur EXCEPT ![p] = Call("observe", l, "", "", 0, mem[p])]
            /\ res' = [res EXCEPT ![p] =
                         IF l \notin DOMAIN locations
                         THEN Plain("LocationNotFound")
                         ELSE Result("OK", 0, 0, get_sorted_items(locations[l]))]
            /\ UNCHANGED <<target, temp, lock, pc, mem, waited, disk0>>

\* An observe_inventory that reads under the file lock and gives up when the
\* lock is held.
ObserveUnderLock(p) ==
    \E l \in LocIds :
        /\ pc[p] = "idle"
        /\ ops < MaxOps
        /\ ops' = ops + 1
        /\ cur' = [cur EXCEPT ![p] = Call("observe", l, "", "", 0, mem[p])]
        /\ res' = [res EXCEPT ![p] =
                     IF lock # "free" THEN StorageError("lock")
                     ELSE IF l \notin DOMAIN mem[p]
                     THEN Plain("LocationNotFound")
                     ELSE Result("OK", 0, 0, get_sorted_items(mem[p][l]))]
        /\ UNCHANGED <<target, temp, lock, pc, mem, waited, disk0>>

\* observe_inventory: no store call, the map is only read.
Observe(p) ==
    \E l \in LocIds :
        /\ pc[p] = "idle"
        /\ ops < MaxOps
        /\ ops' = ops + 1
        /\ cur' = [cur EXCEPT ![p] = Call("observe", l, "", "", 0, mem[p])]
        /\ res' = [res EXCEPT ![p] =
                     IF l \notin DOMAIN mem[p]
                     THEN Plain("LocationNotFound")
                     ELSE Result("OK", 0, 0, get_sorted_items(mem[p][l]))]
        /\ UNCHANGED <<target, temp, lock, pc, mem, waited, disk0>>

\* The command lines: every well-formed command over the known ids, with an
\* invalid identifier or a quantity text that is zero or no integer in any
\* place, and lines with too few words, too few or too many arguments, an
\* unknown domain or an unknown operation.
IdTokens == LocIds \cup {BadId}

ItemTokens == CommandItems \cup {BadId}

QuantityTokens == {QuantityText(q) : q \in Quantities} \cup {"nope"}

CommandLines ==
    {<<>>, <<"LOCATION">>, <<"STOCK", "REGISTER", "A">>, <<"LOCATION", "RENAME", "A">>,
     <<"INVENTORY", "COUNT", "A">>, <<"INVENTORY", "OBSERVE">>,
     <<"INVENTORY", "TRANSFER", "A", "B", "IA">>}
    \cup {<<"LOCATION", o>> : o \in {"REGISTER", "UNREGISTER"}}
    \cup {<<"LOCATION", o, l>> : o \in {"REGISTER", "UNREGISTER"}, l \in IdTokens}
    \cup {<<"LOCATION", o, l, l>> : o \in {"REGISTER", "UNREGISTER"}, l \in LocIds}
    \cup {<<"INVENTORY", o, l>> : o \in {"OBSERVE", "observe"}, l \in IdTokens}
    \cup {<<"INVENTORY", o, l, i>> :
              o \in {"INCREMENT", "DECREMENT"}, l \in LocIds, i \in CommandItems}
    \cup {<<d, o, l, i, q>> :
              d \in {"INVENTORY", "inventory"}, o \in {"INCREMENT", "DECREMENT"},
              l \in IdTokens, i \in ItemTokens, q \in QuantityTokens}
    \cup {<<"INVENTORY", "TRANSFER", a, b, i, q>> :
              a \in IdTokens, b \in IdTokens, i \in ItemTokens, q \in QuantityTokens}

\* The call of one command line, with the line it came from.
Command(tokens, call) ==
    [op |-> call.op, src |-> call.src, dst |-> call.dst, item |-> call.item,
     qty |-> call.qty, pre |-> call.pre, line |-> tokens]

\* The manager method a handler calls for a parsed command.
Dispatch(locations, r) ==
    CASE r.op = "register" -> register_location(locations, r.src)
      [] r.op = "unregister" -> unregister_location(locations, r.src)
      [] r.op = "increment" -> increment_inventory(locations, r.src, r.item, r.qty)
      [] r.op = "decrement" -> decrement_inventory(locations, r.src, r.item, r.qty)
      [] r.op = "transfer" -> transfer_inventory(locations, r.src, r.dst, r.item, r.qty)

\* WarehouseController.execute_command on one line, up to the reply or, for a
\* command that changes the map, up to the call of _save_state.
Execute(p) ==
    \E tokens \in CommandLines :
        LET r == execute_command(tokens)
            call == Command(tokens, Call(r.op, r.src, r.dst, r.item, r.qty, mem[p]))
        IN  IF r.err # "none"
            THEN /\ pc[p] = "idle"
                 /\ ops < MaxOps
                 /\ ops' = ops + 1
                 /\ cur' = [cur EXCEPT ![p] = call]
                 /\ res' = [res EXCEPT ![p] = Plain(r.err)]
                 /\ UNCHANGED <<target, temp, lock, pc, mem, waited, disk0>>
            ELSE IF r.op = "observe"
            THEN /\ pc[p] = "idle"
                 /\ ops < MaxOps
                 /\ ops' = ops + 1
                 /\ cur' = [cur EXCEPT ![p] = call]
                 /\ res' = [res EXCEPT ![p] =
                              IF r.src \notin DOMAIN mem[p]
                              THEN Plain("LocationNotFound")
                              ELSE Result("OK", 0, 0, get_sorted_items(mem[p][r.src]))]
                 /\ UNCHANGED <<target, temp, lock, pc, mem, waited, disk0>>
            ELSE Begin(p, call, Dispatch(mem[p], r))

\* The caller's tally: per item, the quantities of the increments that
\* returned normally less those of the decrements that returned normally.
NoTally == [i \in ItemIds |-> 0]

\* The tally once the call c has ended with result r.
Settled(c, r) ==
    LET net == IF "net" \in DOMAIN c THEN c.net ELSE NoTally IN
    IF r.kind = "OK" /\ c.op \in {"increment", "decrement"}
    THEN [net EXCEPT ![c.item] = @ + (IF c.op = "increment" THEN c.qty ELSE 0 - c.qty)]
    ELSE net

\* A call with the tally of the calls before it.
Tallied(call, net) ==
    [op |-> call.op, src |-> call.src, dst |-> call.dst, item |-> call.item,
     qty |-> call.qty, pre |-> call.pre, net |-> net]

\* One manager operation of a caller that keeps the tally.
Operate(p) ==
    LET net == Settled(cur[p], res[p])
        book(call) == Begin(p, Tallied(call, net), Dispatch(mem[p], call))
    IN  \/ \E l \in LocIds, op \in {"register", "unregister"} :
               book(Call(op, l, "", "", 0, mem[p]))
        \/ \E l \in LocIds, i \in ItemIds, q \in Quantities, op \in {"increment", "decrement"} :
               book(Call(op, l, "", i, q, mem[p]))
        \/ \E a \in LocIds, b \in LocIds, i \in ItemIds, q \in Quantities :
               book(Call("transfer", a, b, i, q, mem[p]))
        \/ \E l \in LocIds :
               /\ pc[p] = "idle"
               /\ ops < MaxOps
               /\ ops' = ops + 1
               /\ cur' = [cur EXCEPT ![p] = Tallied(Call("observe", l, "", "", 0, mem[p]), net)]
               /\ res' = [res EXCEPT ![p] =
                            IF l \notin DOMAIN mem[p]
                            THEN Plain("LocationNotFound")
                            ELSE Result("OK", 0, 0, get_sorted_items(mem[p][l]))]
               /\ UNCHANGED <<target, temp, lock, pc, mem, waited, disk0>>

\* ------------------------------------------------------------------ FileStorage.save
\* A replace that keeps the locations of the old snapshot the new one lacks.
ReplacedMerging(old, tmp) ==
    IF old.kind = "full" /\ tmp.kind = "full"
    THEN File("full",
              [locations |->
                  [l \in DOMAIN old.doc.locations \cup DOMAIN tmp.doc.locations |->
                      IF l \in DOMAIN tmp.doc.locations
                      THEN tmp.doc.locations[l]
                      ELSE old.doc.locations[l]]])
    ELSE tmp

\* The target file after temp_path.replace(file_path).
Replaced(old, tmp) == tmp

\* open(temp_path, 'a'): what the file held is kept.
OpenedForAppend(tmp) == IF tmp.kind = "missing" THEN File("empty", NoDict) ELSE tmp

\* The temporary file after open(temp_path, 'w'): created or truncated.
Opened(tmp) == File("empty", NoDict)

\* The temporary file once json.dump has written the first part of the text
\* after what the file held: a proper prefix of the text is no JSON document.
WriteHead(tmp) ==
    IF tmp.kind = "empty" THEN File("partial", NoDict) ELSE File("garbled", NoDict)

\* The temporary file once the rest of the text is written and it is closed.
WriteTail(tmp, locations) ==
    IF tmp.kind = "partial"
    THEN File("full", Serialize(locations))
    ELSE File("garbled", NoDict)

\* save returns to _save_state, and with it the manager call returns.
SaveReturns(p, result) ==
    /\ pc' = [pc EXCEPT ![p] = "idle"]
    /\ res' = [res EXCEPT ![p] = result]
    /\ disk0' = [disk0 EXCEPT ![p] = Missing]
    /\ UNCHANGED cur

SavePoll(p) ==
    /\ pc[p] = "s_acq"
    /\ IF Acquirable(p)
       THEN /\ lock' = p
            /\ pc' = [pc EXCEPT ![p] = "s_open"]
            /\ waited' = [waited EXCEPT ![p] = 0]
            /\ UNCHANGED <<res, disk0, cur>>
       ELSE IF TimedOut(p)
       THEN /\ SaveReturns(p, StorageError("lock"))
            /\ waited' = [waited EXCEPT ![p] = 0]
            /\ UNCHANGED lock
       ELSE /\ waited' = [waited EXCEPT ![p] = IF @ < MaxPolls THEN @ + 1 ELSE @]
            /\ UNCHANGED <<lock, pc, res, disk0, cur>>
    /\ UNCHANGED <<target, temp, mem, ops>>

\* open(temp_path, 'w'): the temporary file is created or truncated.
SaveOpen(p) ==
    /\ pc[p] = "s_open"
    /\ temp' = Opened(temp)
    /\ pc' = [pc EXCEPT ![p] = "s_write"]
    /\ UNCHANGED <<target, lock, mem, cur, res, waited, ops, disk0>>

\* json.dump: part of the text is in the temporary file.
SaveWrite(p) ==
    /\ pc[p] = "s_write"
    /\ temp' = WriteHead(temp)
    /\ pc' = [pc EXCEPT ![p] = "s_close"]
    /\ UNCHANGED <<target, lock, mem, cur, res, waited, ops, disk0>>

\* The rest of the text is written and the temporary file is closed.
SaveClose(p) ==
    /\ pc[p] = "s_close"
    /\ temp' = WriteTail(temp, mem[p])
    /\ pc' = [pc EXCEPT ![p] = "s_replace"]
    /\ UNCHANGED <<target, lock, mem, cur, res, waited, ops, disk0>>

\* temp_path.replace(file_path), then the lock is released and save returns.
SaveReplace(p) ==
    /\ pc[p] = "s_replace"
    /\ target' = Replaced(target, temp)
    /\ temp' = Missing
    /\ lock' = Released(p)
    /\ SaveReturns(p, Plain("OK"))
    /\ UNCHANGED <<mem, waited, ops>>

\* A replace that copies the temporary file over the target and then fails.
SaveFailAfterCopy(p) ==
    /\ pc[p] \in {"s_open", "s_write", "s_close", "s_replace"}
    /\ target' = IF pc[p] = "s_replace" THEN temp ELSE target
    /\ lock' = Released(p)
    /\ SaveReturns(p, StorageError("io"))
    /\ UNCHANGED <<temp, mem, waited, ops>>

\* A manager that calls save again when it has failed.
SaveFailRetried(p) ==
    /\ pc[p] \in {"s_open", "s_write", "s_close", "s_replace"}
    /\ lock' = Released(p)
    /\ pc' = [pc EXCEPT ![p] = "s_acq"]
    /\ waited' = [waited EXCEPT ![p] = 0]
    /\ UNCHANGED <<target, temp, mem, cur, res, ops, disk0>>

\* mkdir, open, write, close or replace raises IOError/OSError: the files
\* stay as the steps before left them.
SaveFail(p) ==
    /\ pc[p] \in {"s_open", "s_write", "s_close", "s_replace"}
    /\ lock' = Released(p)
    /\ SaveReturns(p, StorageError("io"))
    /\ UNCHANGED <<target, temp, mem, waited, ops>>

\* The process is killed inside a store call: its memory is gone and the
\* operating system drops the lock it held.
Kill(p) ==
    /\ pc[p] \in LoadPcs \cup SavePcs
    /\ pc' = [pc EXCEPT ![p] = "killed"]
    /\ lock' = IF lock = p THEN "free" ELSE lock
    /\ mem' = [mem EXCEPT ![p] = NoDict]
    /\ res' = [res EXCEPT ![p] = Plain("killed")]
    /\ disk0' = [disk0 EXCEPT ![p] = Missing]
    /\ waited' = [waited EXCEPT ![p] = 0]
    /\ UNCHANGED <<target, temp, cur, ops>>

\* ------------------------------------------------------------------ specification
StoreStep(p) ==
    \/ LoadPoll(p)
    \/ LoadRead(p)
    \/ SavePoll(p)
    \/ SaveOpen(p)
    \/ SaveWrite(p)
    \/ SaveClose(p)
    \/ SaveReplace(p)

Next ==
    \E p \in Procs :
        \/ Construct(p)
        \/ LoadPoll(p)
        \/ LoadRead(p)
        \/ LoadFail(p)
        \/ Register(p)
        \/ Unregister(p)
        \/ Increment(p)
        \/ Decrement(p)
        \/ Transfer(p)
        \/ Observe(p)
        \/ SavePoll(p)
        \/ SaveOpen(p)
        \/ SaveWrite(p)
        \/ SaveClose(p)
        \/ SaveReplace(p)
        \/ SaveFail(p)
        \/ Kill(p)

Spec == Init /\ [][Next]_vars

\* The store steps of the process the liveness claims watch are taken as long
\* as they are possible: a live process is scheduled and its file operations
\* return. Nothing is assumed of the other processes, which may stall anywhere,
\* also while holding the lock.
Watched == "p1"

\* The same processes over a state file of any content.
AnyFileSpec == InitAnyFile /\ [][Next]_vars

LiveSpec == Spec /\ WF_vars(StoreStep(Watched))

\* main() returns at the end of its input and is run again over the same
\* file: a new manager is constructed, the map of the old one is gone.
Restart(p) ==
    /\ pc[p] = "idle"
    /\ cur[p].op # "restart"
    /\ pc' = [pc EXCEPT ![p] = "l_acq"]
    /\ cur' = [cur EXCEPT ![p] = Call("restart", "", "", "", 0, mem[p])]
    /\ mem' = [mem EXCEPT ![p] = NoDict]
    /\ res' = [res EXCEPT ![p] = Plain("pending")]
    /\ waited' = [waited EXCEPT ![p] = 0]
    /\ UNCHANGED <<target, temp, lock, ops, disk0>>

\* One process alone on the file, no write of which fails and which is not
\* killed; it may end and be started again.
SoloNext ==
    \E p \in {Watched} :
        \/ Construct(p)
        \/ LoadPoll(p)
        \/ LoadRead(p)
        \/ LoadFail(p)
        \/ Register(p)
        \/ Unregister(p)
        \/ Increment(p)
        \/ Decrement(p)
        \/ Transfer(p)
        \/ Observe(p)
        \/ SavePoll(p)
        \/ SaveOpen(p)
        \/ SaveWrite(p)
        \/ SaveClose(p)
        \/ SaveReplace(p)
        \/ Restart(p)

SoloSpec == Init /\ [][SoloNext]_vars

\* The inventories that satisfy the entity invariants: any items, each with
\* a quantity of 1 or more.
Inventories ==
    UNION {{[i \in I |-> [item_id |-> i, quantity |-> f[i]]] : f \in [I -> 1..MaxQty]}
              : I \in SUBSET ItemIds}

\* The maps of locations that satisfy the entity invariants, the empty map
\* and locations without inventory among them.
States ==
    UNION {{[l \in L |-> [location_id |-> l, inventory |-> g[l]]] : g \in [L -> Inventories]}
              : L \in SUBSET LocIds}

\* A caller that holds a map S and a store over a file that is missing or
\* was left by an earlier run.
RoundTripInit ==
    \E S \in States, file \in {Missing, File("full", Serialize(Seeded))} :
        /\ target = file
        /\ temp = Missing
        /\ lock = "free"
        /\ pc = [p \in Procs |-> IF p = Watched THEN "idle" ELSE "start"]
        /\ mem = [p \in Procs |-> IF p = Watched THEN S ELSE NoDict]
        /\ cur = [p \in Procs |->
                    IF p = Watched THEN Call("given", "", "", "", 0, S) ELSE NoCall]
        /\ res = [p \in Procs |-> Plain("none")]
        /\ waited = [p \in Procs |-> 0]
        /\ ops = 0
        /\ disk0 = [p \in Procs |-> Missing]

\* storage.save(S) is called with the map the caller holds.
StoreSave(p) ==
    /\ pc[p] = "idle"
    /\ cur[p].op \in {"given", "loadback"}
    /\ pc' = [pc EXCEPT ![p] = "s_acq"]
    /\ cur' = [cur EXCEPT ![p] = Call("save", "", "", "", 0, mem[p])]
    /\ res' = [res EXCEPT ![p] = Plain("pending")]
    /\ waited' = [waited EXCEPT ![p] = 0]
    /\ disk0' = [disk0 EXCEPT ![p] = target]
    /\ UNCHANGED <<target, temp, lock, mem, ops>>

\* storage.load() is called after the save has returned; what it returns is
\* a map built anew.
LoadBack(p) ==
    /\ pc[p] = "idle"
    /\ cur[p].op = "save" /\ res[p].kind = "OK"
    /\ pc' = [pc EXCEPT ![p] = "l_acq"]
    /\ cur' = [cur EXCEPT ![p] = Call("loadback", "", "", "", 0, cur[p].pre)]
    /\ mem' = [mem EXCEPT ![p] = NoDict]
    /\ res' = [res EXCEPT ![p] = Plain("pending")]
    /\ waited' = [waited EXCEPT ![p] = 0]
    /\ UNCHANGED <<target, temp, lock, ops, disk0>>

RoundTripNext ==
    \E p \in {Watched} :
        \/ StoreSave(p)
        \/ SavePoll(p)
        \/ SaveOpen(p)
        \/ SaveWrite(p)
        \/ SaveClose(p)
        \/ SaveReplace(p)
        \/ LoadBack(p)
        \/ LoadPoll(p)
        \/ LoadRead(p)

\* save(S) followed by load(), for every S of States.
RoundTripSpec == RoundTripInit /\ [][RoundTripNext]_vars

\* The records a state file can hold for an item and for a location: the
\* ids and the quantity are whatever the text says, whatever key they are
\* filed under.
ItemRecords == [item_id : CommandItems \cup {BadId}, quantity : Quantities]

DocInventories == UNION {[I -> ItemRecords] : I \in SUBSET CommandItems}

LocationRecords == [location_id : LocIds \cup {BadId}, inventory : DocInventories]

\* The JSON documents of the persisted shape.
Documents ==
    {[locations |-> d] : d \in UNION {[L -> LocationRecords] : L \in SUBSET LocIds}}

\* A state file of any content: none, no text, text that is no JSON, or a
\* JSON document of the persisted shape with any records.
LoadInit ==
    \E file \in {Missing, File("empty", NoDict), File("partial", NoDict),
                  File("garbled", NoDict)}
                    \cup {File("full", d) : d \in Documents} : Start(file)

\* The processes construct their managers and do nothing else.
LoadNext ==
    \E p \in Procs :
        \/ Construct(p)
        \/ LoadPoll(p)
        \/ LoadRead(p)
        \/ LoadFail(p)
        \/ Kill(p)

LoadSpec == LoadInit /\ [][LoadNext]_vars

\* A manager over any valid map, the state file holding its snapshot.
AnyStateInit ==
    \E S \in States :
        /\ target = File("full", Serialize(S))
        /\ temp = Missing
        /\ lock = "free"
        /\ pc = [p \in Procs |-> IF p = Watched THEN "idle" ELSE "start"]
        /\ mem = [p \in Procs |-> IF p = Watched THEN S ELSE NoDict]
        /\ cur = [p \in Procs |->
                    IF p = Watched THEN Call("given", "", "", "", 0, S) ELSE NoCall]
        /\ res = [p \in Procs |-> Plain("none")]
        /\ waited = [p \in Procs |-> 0]
        /\ ops = 0
        /\ disk0 = [p \in Procs |-> Missing]

\* One more increment_inventory call of a run of calls for one item at one
\* location that starts with the item absent, up to the call of _save_state.
\* cur records the run: the location, the item, in qty the sum of the
\* quantities of the calls so far, in pre the map before the first call.
IncrementMore(p) ==
    \E l \in LocIds, i \in ItemIds, q \in 1..MaxQty :
        LET o == increment_inventory(mem[p], l, i, q)
            sofar == IF cur[p].op = "increments" THEN cur[p].qty ELSE 0
        IN  /\ pc[p] = "idle"
            /\ IF cur[p].op = "increments"
               THEN l = cur[p].src /\ i = cur[p].item /\ res[p].kind = "OK"
               ELSE l \in DOMAIN mem[p] /\ get_item_quantity(mem[p][l], i) = 0
            /\ sofar + q <= MaxSum
            /\ o.err = "none" /\ o.save
            /\ mem' = [mem EXCEPT ![p] = o.locations]
            /\ cur' = [cur EXCEPT ![p] =
                         Call("increments", l, "", i, sofar + q,
                              IF cur[p].op = "increments" THEN cur[p].pre ELSE mem[p])]
            /\ pc' = [pc EXCEPT ![p] = "s_acq"]
            /\ res' = [res EXCEPT ![p] = Plain("pending")]
            /\ waited' = [waited EXCEPT ![p] = 0]
            /\ disk0' = [disk0 EXCEPT ![p] = target]
            /\ ops' = ops + 1
            /\ UNCHANGED <<target, temp, lock>>

IncrementNext ==
    \E p \in {Watched} :
        \/ IncrementMore(p)
        \/ SavePoll(p)
        \/ SaveOpen(p)
        \/ SaveWrite(p)
        \/ SaveClose(p)
        \/ SaveReplace(p)

\* Runs of successful increments of one item at one location.
IncrementSpec == AnyStateInit /\ [][IncrementNext]_vars

\* The operations of one manager, over any valid map; a save may fail.
OpsNext ==
    \E p \in {Watched} :
        \/ Register(p)
        \/ Unregister(p)
        \/ Increment(p)
        \/ Decrement(p)
        \/ Transfer(p)
        \/ Observe(p)
        \/ SavePoll(p)
        \/ SaveOpen(p)
        \/ SaveWrite(p)
        \/ SaveClose(p)
        \/ SaveReplace(p)
        \/ SaveFail(p)

OpsSpec == AnyStateInit /\ [][OpsNext]_vars

\* One manager behind the command adapter: it is constructed, then handles
\* command lines; a save may fail.
AdapterNext ==
    \E p \in {Watched} :
        \/ Construct(p)
        \/ LoadPoll(p)
        \/ LoadRead(p)
        \/ LoadFail(p)
        \/ Execute(p)
        \/ SavePoll(p)
        \/ SaveOpen(p)
        \/ SaveWrite(p)
        \/ SaveClose(p)
        \/ SaveReplace(p)
        \/ SaveFail(p)

AdapterSpec == Init /\ [][AdapterNext]_vars

\* A single process that starts without a state file and keeps the tally of
\* its increments and decrements; a save may fail.
TallyNext ==
    \E p \in {Watched} :
        \/ Construct(p)
        \/ LoadPoll(p)
        \/ LoadRead(p)
        \/ Operate(p)
        \/ SavePoll(p)
        \/ SaveOpen(p)
        \/ SaveWrite(p)
        \/ SaveClose(p)
        \/ SaveReplace(p)
        \/ SaveFail(p)

TallySpec == Start(Missing) /\ [][TallyNext]_vars

\* ------------------------------------------------------------------ claims
MutatingOps == {"register", "unregister", "increment", "decrement", "transfer"}

PreconditionErrors ==
    {"LocationAlreadyExists", "LocationNotFound", "LocationHasInventory",
     "ItemNotFound", "InsufficientQuantity", "ValueError"}

\* The quantity of an item a map of locations holds at a location (0 if none).
Qty(locations, l, i) ==
    IF l \in DOMAIN locations /\ i \in DOMAIN locations[l].inventory
    THEN locations[l].inventory[i].quantity
    ELSE 0

\* The quantity a JSON document records for an item at a location (0 if none).
DocQty(doc, l, i) ==
    IF l \in DOMAIN doc.locations /\ i \in DOMAIN doc.locations[l].inventory
    THEN doc.locations[l].inventory[i].quantity
    ELSE 0

\* Location l is the same in both maps: absent in both, or the same record.
SameLocation(before, after, l) ==
    /\ l \in DOMAIN before <=> l \in DOMAIN after
    /\ l \in DOMAIN before => after[l] = before[l]

\* The process has returned from the manager call recorded in cur.
Returned(p) == pc[p] = "idle" /\ cur[p].op # "load"

TransferPreconditions(c) ==
    /\ c.src \in DOMAIN c.pre
    /\ c.dst \in DOMAIN c.pre
    /\ c.item \in DOMAIN c.pre[c.src].inventory
    /\ c.qty > 0
    /\ c.qty <= Qty(c.pre, c.src, c.item)

\* C1: a transfer between two distinct locations that succeeds takes exactly
\* qty from the source and adds exactly qty to the destination, so the sum over
\* the two is kept; a transfer whose precondition fails does not succeed and
\* leaves both locations as they were.
C1_TransferMovesQuantity ==
    \A p \in Procs :
        (Returned(p) /\ cur[p].op = "transfer" /\ cur[p].src # cur[p].dst) =>
            LET c == cur[p] IN
            IF TransferPreconditions(c)
            THEN res[p].kind = "OK" =>
                    /\ Qty(mem[p], c.src, c.item) = Qty(c.pre, c.src, c.item) - c.qty
                    /\ Qty(mem[p], c.dst, c.item) = Qty(c.pre, c.dst, c.item) + c.qty
                    /\ Qty(mem[p], c.src, c.item) + Qty(mem[p], c.dst, c.item)
                         = Qty(c.pre, c.src, c.item) + Qty(c.pre, c.dst, c.item)
            ELSE /\ res[p].kind \in PreconditionErrors
                 /\ SameLocation(c.pre, mem[p], c.src)
                 /\ SameLocation(c.pre, mem[p], c.dst)

\* A process has completed a transfer onto a destination that already held
\* the item.
C1_Witness ==
    \E p \in Procs :
        /\ Returned(p) /\ cur[p].op = "transfer" /\ cur[p].src # cur[p].dst
        /\ res[p].kind = "OK"
        /\ Qty(cur[p].pre, cur[p].dst, cur[p].item) > 0

\* The quantities of the transfer's item a document records at the source
\* and at the destination are those before the call with the removal and
\* the addition both applied.
DebitedAndCredited(doc, c) ==
    \A l \in {c.src, c.dst} :
        DocQty(doc, l, c.item) =
            Qty(c.pre, l, c.item) - (IF l = c.src THEN c.qty ELSE 0)
                                  + (IF l = c.dst THEN c.qty ELSE 0)

\* C2: while a process holds the lock to persist a transfer, whatever other
\* processes do and wherever it is killed, each step leaves the target file as
\* it was or replaces it by a complete snapshot in which the source is debited
\* and the destination credited.
C2_TransferOnDiskWhole ==
    [][\A p \in Procs :
          (cur[p].op = "transfer" /\ pc[p] \in SavePcs /\ lock = p
             /\ target' # target) =>
              /\ target'.kind = "full"
              /\ DebitedAndCredited(target'.doc, cur[p])]_vars

\* A transfer between two locations is on disk, and a process was killed
\* inside the save of its own call.
C2_Witness ==
    \E p \in Procs, q \in Procs :
        /\ Returned(p) /\ cur[p].op = "transfer" /\ cur[p].src # cur[p].dst
        /\ res[p].kind = "OK"
        /\ target = File("full", Serialize(mem[p]))
        /\ DebitedAndCredited(target.doc, cur[p])
        /\ pc[q] = "killed" /\ cur[q].op \in MutatingOps

\* C3: the target file is never partial: it only changes when the process
\* holding the lock replaces it by the complete snapshot of the map passed to
\* its save, also after a killed or failed save has left a partial temporary
\* file behind.
C3_TargetAlwaysComplete ==
    /\ [](target.kind \in {"missing", "full"})
    /\ [][target' # target =>
             \E p \in Procs :
                 /\ lock = p /\ pc[p] = "s_replace"
                 /\ target' = File("full", Serialize(mem[p]))]_vars

\* A process was killed while writing the temporary file and left it partial;
\* the other process now holds the lock for the only other save.
C3_Witness ==
    \E p \in Procs, q \in Procs :
        /\ pc[p] = "killed" /\ cur[p].op \in MutatingOps
        /\ temp.kind = "partial"
        /\ pc[q] = "s_open" /\ lock = q
        /\ ops = 2

\* C4: a mutating manager call whose persist step fails with StorageError
\* returns with the in-memory map equal to its value before the call.
C4_FailedSaveRestoresMemory ==
    \A p \in Procs :
        (Returned(p) /\ cur[p].op \in MutatingOps /\ res[p].kind = "StorageError")
            => mem[p] = cur[p].pre

\* The step in which the save of p returns StorageError.
SaveFailsNow(p) ==
    pc[p] \in SavePcs /\ pc'[p] = "idle" /\ res'[p].kind = "StorageError"

\* C5 as stated: when save fails with StorageError the target file holds
\* exactly what it held when save was called.
C5_TargetAsBeforeCall ==
    [][\A p \in Procs : SaveFailsNow(p) => target' = disk0[p]]_vars

\* C5, amended: a save that fails with StorageError has not written the target
\* file. The target changes only in the replace of a save that returns
\* normally, so at the failure it holds what it held before the call unless
\* the successful save of another process replaced it meanwhile.
C5_FailedSaveWritesNothing ==
    [][/\ \A p \in Procs : SaveFailsNow(p) => target' = target
       /\ target' # target =>
             \E q \in Procs :
                 /\ lock = q /\ pc[q] = "s_replace"
                 /\ pc'[q] = "idle" /\ res'[q].kind = "OK"]_vars

\* The save of one process timed out on the lock, and the target holds the
\* snapshot another process has saved.
C5_Witness ==
    \E p \in Procs, q \in Procs :
        /\ p # q
        /\ Returned(p) /\ cur[p].op \in MutatingOps
        /\ res[p].kind = "StorageError" /\ res[p].detail = "lock"
        /\ Returned(q) /\ cur[q].op \in MutatingOps /\ res[q].kind = "OK"
        /\ target = File("full", Serialize(mem[q]))
        /\ target # File("full", Serialize(cur[p].pre))

\* The step is a manager call of p that returns at once (no store call); the
\* other processes do nothing in it.
CallReturnsNow(p) ==
    /\ pc[p] = "idle" /\ pc'[p] = "idle"
    /\ ops' = ops + 1
    /\ \A q \in Procs \ {p} :
          cur'[q] = cur[q] /\ res'[q] = res[q] /\ mem'[q] = mem[q] /\ pc'[q] = pc[q]

\* C6: a manager call that fails a precondition leaves the in-memory map as
\* it was before the call and touches neither the target file, nor the
\* temporary file, nor the lock.
C6_FailedPreconditionChangesNothing ==
    [][\A p \in Procs :
          (CallReturnsNow(p) /\ res'[p].kind \in PreconditionErrors) =>
              /\ mem'[p] = mem[p]
              /\ mem'[p] = cur'[p].pre
              /\ target' = target /\ temp' = temp /\ lock' = lock]_vars

\* A transfer was refused because the source does not hold the item and an
\* unregister because the location holds inventory.
C6_Witness ==
    \E p \in Procs, q \in Procs :
        /\ Returned(p) /\ cur[p].op = "transfer"
        /\ res[p].kind = "ItemNotFound"
        /\ Returned(q) /\ cur[q].op = "unregister"
        /\ res[q].kind = "LocationHasInventory"

AllPositive(locations) ==
    \A l \in DOMAIN locations : \A i \in DOMAIN locations[l].inventory :
        locations[l].inventory[i].quantity >= 1

DocPositive(file) ==
    file.kind = "full" =>
        \A l \in DOMAIN file.doc.locations :
            \A i \in DOMAIN file.doc.locations[l].inventory :
                file.doc.locations[l].inventory[i].quantity >= 1

\* C7: every item record in a manager's map and in every snapshot written to
\* the temporary or the target file has quantity >= 1.
C7_QuantitiesPositive ==
    /\ \A p \in Procs : AllPositive(mem[p])
    /\ DocPositive(target)
    /\ DocPositive(temp)

\* A decrement by the whole quantity has returned and its snapshot is on disk.
C7_Witness ==
    \E p \in Procs :
        /\ Returned(p) /\ cur[p].op = "decrement" /\ res[p].kind = "OK"
        /\ cur[p].qty = Qty(cur[p].pre, cur[p].src, cur[p].item)
        /\ cur[p].item \notin DOMAIN mem[p][cur[p].src].inventory
        /\ target = File("full", Serialize(mem[p]))

\* C8: at most one process is between acquiring and releasing the lock in
\* load or save, and that process holds the lock.
C8_MutualExclusion ==
    \A p \in Procs :
        pc[p] \in CriticalPcs =>
            /\ lock = p
            /\ \A q \in Procs \ {p} : pc[q] \notin CriticalPcs

\* One process is writing the temporary file while another has polled the
\* lock in vain.
C8_Witness ==
    \E p \in Procs, q \in Procs :
        /\ pc[p] = "s_close" /\ temp.kind = "partial"
        /\ pc[q] \in {"l_acq", "s_acq"} /\ waited[q] >= 1

InStoreCall(p) == pc[p] \in LoadPcs \cup SavePcs

\* C9: a load or save call of a process that keeps running ends: it gets the
\* lock and completes, or fails once the wait exceeds the timeout, whatever
\* the other processes do; and no process waits for a lock it holds itself.
C9_StoreCallsReturn ==
    /\ InStoreCall(Watched) ~> ~InStoreCall(Watched)
    /\ [](\A p \in Procs : pc[p] \in {"l_acq", "s_acq"} => lock # p)

\* The watched process has waited for the whole timeout while another process
\* holds the lock: its next poll raises Timeout.
C9_Witness ==
    /\ pc[Watched] = "s_acq" /\ waited[Watched] = MaxPolls
    /\ lock \in Procs \ {Watched}

\* C10: a process that is not between acquiring and releasing the lock inside
\* a load or save call does not hold the lock.
C10_NoLockOutsideStoreCall ==
    \A p \in Procs : lock = p => pc[p] \in CriticalPcs

\* The load of one process has failed on a state file that is no JSON text or
\* holds an invalid record, and the other process, whose only store call so
\* far is its load, has acquired the lock since.
C10_Witness ==
    \E p \in Procs, r \in Procs :
        /\ r # p
        /\ pc[p] = "exited" /\ res[p].detail \in {"json", "data"}
        /\ lock = r /\ pc[r] = "l_read"

\* The step in which the save of p replaces the target and returns normally.
SaveSucceedsNow(p) ==
    pc[p] = "s_replace" /\ pc'[p] = "idle" /\ res'[p].kind = "OK"

\* C11: a save installs the snapshot of the saving manager's own map, whatever
\* the target held, and no manager's map is refreshed from the file after its
\* construction: a map changes only in a step of its own process, and a
\* process reads the target only in the load of its construction. So of two
\* processes that both complete a mutation, the later save can leave a
\* snapshot without the effect of the earlier one.
C11_SaveWritesOwnMapOnly ==
    /\ [][\A p \in Procs :
             /\ SaveSucceedsNow(p) =>
                    (target' = File("full", Serialize(mem[p])) /\ mem' = mem)
             /\ mem'[p] # mem[p] =>
                    \/ pc[p] = "idle" /\ cur'[p].op \in MutatingOps
                    \/ pc[p] = "l_read" /\ cur[p].op = "load"
                    \/ pc'[p] = "killed"]_vars
    /\ [](\A p \in Procs : pc[p] \in LoadPcs => cur[p].op = "load")

\* Both processes have registered a location and both saves have returned
\* normally; the snapshot on disk is that of the later one and lacks the
\* location the other process registered.
C11_Witness ==
    \E p \in Procs, q \in Procs :
        /\ p # q
        /\ Returned(p) /\ cur[p].op = "register" /\ res[p].kind = "OK"
        /\ Returned(q) /\ cur[q].op = "register" /\ res[q].kind = "OK"
        /\ cur[p].src \in DOMAIN mem[p]
        /\ target = File("full", Serialize(mem[q]))
        /\ cur[p].src \notin DOMAIN target.doc.locations

\* C12: in a run of one process in which no save fails, whenever the manager
\* is between operations the target file decodes to exactly the manager's
\* map, and a manager constructed anew over the file starts with the map the
\* previous manager ended with.
C12_DiskDecodesToMemory ==
    \A p \in Procs :
        pc[p] = "idle" =>
            /\ Load(target) = [err |-> "none", locations |-> mem[p]]
            /\ cur[p].op = "restart" => mem[p] = cur[p].pre

\* After all the operations of the run a new manager has been constructed,
\* over a map that is neither empty nor the one the run started with.
C12_Witness ==
    \E p \in Procs :
        /\ pc[p] = "idle" /\ cur[p].op = "restart" /\ res[p].kind = "OK"
        /\ ops >= 2
        /\ mem[p] # NoDict /\ mem[p] # Seeded
        /\ target = File("full", Serialize(mem[p]))

\* C13: for every state S that satisfies the entity invariants, once save(S)
\* has returned the target file is the snapshot of S and decodes to S, and
\* the load() that follows returns a map equal to S: the same location ids
\* and in each location the same item ids with the same quantities.
C13_SaveThenLoadReturnsState ==
    \A p \in Procs :
        /\ (pc[p] = "idle" /\ cur[p].op = "save" /\ res[p].kind = "OK") =>
               /\ target = File("full", Serialize(cur[p].pre))
               /\ Load(target) = [err |-> "none", locations |-> cur[p].pre]
        /\ (pc[p] = "idle" /\ cur[p].op = "loadback") =>
               /\ res[p].kind = "OK"
               /\ mem[p] = cur[p].pre
               /\ DOMAIN mem[p] = DOMAIN cur[p].pre
               /\ \A l \in DOMAIN mem[p] :
                      /\ DOMAIN mem[p][l].inventory = DOMAIN cur[p].pre[l].inventory
                      /\ \A i \in ItemIds : Qty(mem[p], l, i) = Qty(cur[p].pre, l, i)

\* The load has returned a map with a location that holds two items in
\* different quantities and a location without inventory.
C13_Witness ==
    \E p \in Procs :
        /\ pc[p] = "idle" /\ cur[p].op = "loadback"
        /\ DOMAIN mem[p] = {"A", "B"}
        /\ Qty(mem[p], "A", "IA") = 2 /\ Qty(mem[p], "A", "IB") = 1
        /\ ~has_inventory(mem[p]["B"])

\* The step in which the load of p ends, by a return or by StorageError.
LoadEndsNow(p) == pc[p] \in LoadPcs /\ pc'[p] \in {"idle", "exited"}

NothingToRead == target.kind \in {"missing", "empty"}

\* C14 as stated: whenever the file is missing or empty load returns an empty
\* state without error, whoever holds the lock and for however long.
C14_MissingOrEmptyAlwaysLoads ==
    [][\A p \in Procs :
          (LoadEndsNow(p) /\ NothingToRead) =>
              (res'[p].kind = "OK" /\ mem'[p] = NoDict)]_vars

\* C14, amended: load takes the lock first on every path. On a missing or
\* empty file it returns an empty state without error once it holds the lock,
\* and fails with StorageError when another process holds the lock for
\* longer than the timeout; it fails in no other way and leaves the file alone.
C14_MissingOrEmptyLoadsUnderLock ==
    [][\A p \in Procs :
          (LoadEndsNow(p) /\ NothingToRead) =>
              /\ target' = target
              /\ \/ /\ pc[p] = "l_read" /\ lock = p
                    /\ res'[p].kind = "OK" /\ mem'[p] = NoDict
                 \/ /\ pc[p] = "l_acq" /\ lock \in Procs \ {p}
                    /\ waited[p] >= MaxPolls
                    /\ res'[p] = StorageError("lock")]_vars

\* The load of one process has returned the empty state from an empty file,
\* and the load of the other has failed on the lock over the same file.
C14_Witness ==
    \E p \in Procs, q \in Procs :
        /\ target.kind = "empty"
        /\ pc[p] = "exited" /\ res[p] = StorageError("lock")
        /\ pc[q] = "idle" /\ cur[q].op = "load" /\ res[q].kind = "OK"
        /\ mem[q] = NoDict

\* Every record of the map is valid: ids that pass the validation and
\* quantities of 1 or more.
RecordsValid(locations) ==
    \A l \in DOMAIN locations :
        /\ ValidId(locations[l].location_id)
        /\ \A i \in DOMAIN locations[l].inventory :
              /\ ValidId(locations[l].inventory[i].item_id)
              /\ locations[l].inventory[i].quantity >= 1

\* No two locations of the map have the same location_id, and no two records
\* of a location the same item_id.
IdsUnique(locations) ==
    /\ \A l \in DOMAIN locations, k \in DOMAIN locations :
          locations[l].location_id = locations[k].location_id => l = k
    /\ \A l \in DOMAIN locations :
          \A i \in DOMAIN locations[l].inventory, j \in DOMAIN locations[l].inventory :
              locations[l].inventory[i].item_id = locations[l].inventory[j].item_id
                  => i = j

EntityInvariants(locations) == RecordsValid(locations) /\ IdsUnique(locations)

\* The file is a JSON document with a record that fails the validation.
HoldsInvalidRecord(file) ==
    /\ file.kind = "full"
    /\ \E l \in DOMAIN file.doc.locations :
          \/ ~ValidId(file.doc.locations[l].location_id)
          \/ \E i \in DOMAIN file.doc.locations[l].inventory :
                \/ ~ValidId(file.doc.locations[l].inventory[i].item_id)
                \/ file.doc.locations[l].inventory[i].quantity <= 0

\* C15: a load of a non-empty file that ends either returns a state that
\* satisfies the entity invariants or fails with StorageError; text that is
\* no JSON and a record that violates the invariants give StorageError; and
\* the load leaves the target file as it was.
C15_LoadReturnsValidStateOrFails ==
    [][\A p \in Procs :
          (LoadEndsNow(p) /\ ~NothingToRead) =>
              /\ target' = target
              /\ IF pc'[p] = "idle"
                 THEN res'[p].kind = "OK" /\ EntityInvariants(mem'[p])
                 ELSE res'[p].kind = "StorageError"
              /\ (target.kind \in {"partial", "garbled"} \/ HoldsInvalidRecord(target))
                    => pc'[p] = "exited"]_vars

\* C16: after any run of successful increment_inventory calls for one item at
\* one location that starts with the item absent, the item's quantity is the
\* sum of the increments, and every other item and every other location is as
\* it was before the run.
C16_IncrementsAddUp ==
    \A p \in Procs :
        (pc[p] = "idle" /\ cur[p].op = "increments") =>
            LET c == cur[p] IN
            /\ res[p].kind = "OK"
            /\ c.item \in DOMAIN mem[p][c.src].inventory
            /\ Qty(mem[p], c.src, c.item) = c.qty
            /\ mem[p] = [c.pre EXCEPT ![c.src].inventory =
                            Put(@, c.item, [item_id |-> c.item, quantity |-> c.qty])]

\* Three or more increments have brought an item from absent to MaxSum, at a
\* location that holds another item, beside another location with inventory.
C16_Witness ==
    \E p \in Procs :
        /\ pc[p] = "idle" /\ cur[p].op = "increments"
        /\ ops >= 3 /\ cur[p].qty = MaxSum
        /\ Cardinality(DOMAIN mem[p][cur[p].src].inventory) = 2
        /\ \E l \in DOMAIN mem[p] : l # cur[p].src /\ has_inventory(mem[p][l])

\* The items of the location other than the given one are as before, and so
\* is every other location.
OnlyItemTouched(before, after, l, i) ==
    /\ DOMAIN after = DOMAIN before
    /\ \A k \in DOMAIN before : k # l => after[k] = before[k]
    /\ after[l].location_id = before[l].location_id
    /\ DOMAIN after[l].inventory \ {i} = DOMAIN before[l].inventory \ {i}
    /\ \A j \in DOMAIN before[l].inventory :
          j # i => after[l].inventory[j] = before[l].inventory[j]

\* C17: decrement_inventory(loc, item, q) with 0 < q <= available leaves the
\* item with available - q; the record is deleted exactly when q = available,
\* and then the item is absent (no record of quantity 0), observe_inventory
\* does not return it and it no longer keeps unregister_location from
\* removing the location; other items and other locations are unchanged.
C17_DecrementSubtractsOrDeletes ==
    \A p \in Procs :
        LET c == cur[p]
            available == Qty(c.pre, c.src, c.item)
            sorted == IF c.src \in DOMAIN mem[p]
                      THEN get_sorted_items(mem[p][c.src]) ELSE <<>>
        IN  (Returned(p) /\ c.op = "decrement" /\ 0 < c.qty /\ c.qty <= available) =>
                /\ res[p].kind \in {"OK", "StorageError"}
                /\ Qty(mem[p], c.src, c.item) = available - c.qty
                /\ c.item \notin DOMAIN mem[p][c.src].inventory <=> c.qty = available
                /\ c.item \in DOMAIN mem[p][c.src].inventory =>
                       mem[p][c.src].inventory[c.item] =
                           [item_id |-> c.item, quantity |-> available - c.qty]
                /\ c.qty = available =>
                       /\ \A n \in DOMAIN sorted : sorted[n].item_id # c.item
                       /\ unregister_location(mem[p], c.src).err = "LocationHasInventory"
                            <=> DOMAIN c.pre[c.src].inventory # {c.item}
                /\ OnlyItemTouched(c.pre, mem[p], c.src, c.item)

\* A decrement by the whole quantity has deleted the record of a location
\* that still holds another item, beside another location with inventory.
C17_Witness ==
    \E p \in Procs :
        /\ Returned(p) /\ cur[p].op = "decrement" /\ res[p].kind = "OK"
        /\ cur[p].qty = 2 /\ Qty(cur[p].pre, cur[p].src, cur[p].item) = 2
        /\ DOMAIN mem[p][cur[p].src].inventory = {"IB"}
        /\ \E l \in DOMAIN mem[p] : l # cur[p].src /\ has_inventory(mem[p][l])

C19_UnregisterOnlyEmpty ==
    /\ [](\A p \in Procs :
             LET c == cur[p] IN
             (Returned(p) /\ c.op = "unregister") =>
                 IF c.src \notin DOMAIN c.pre
                 THEN res[p].kind = "LocationNotFound" /\ mem[p] = c.pre
                 ELSE IF DOMAIN c.pre[c.src].inventory # {}
                 THEN res[p].kind = "LocationHasInventory" /\ mem[p] = c.pre
                 ELSE /\ res[p].kind \in {"OK", "StorageError"}
                      /\ DOMAIN mem[p] = DOMAIN c.pre \ {c.src}
                      /\ \A l \in DOMAIN mem[p] : mem[p][l] = c.pre[l])
    /\ [][\A p \in Procs : \A l \in DOMAIN mem[p] :
             l \notin DOMAIN mem'[p] => DOMAIN mem[p][l].inventory = {}]_vars

\* An unregister was refused, as the second operation of the run, for a
\* location that holds both items and is the only one in the map.
C19_Witness ==
    \E p \in Procs :
        /\ Returned(p) /\ cur[p].op = "unregister"
        /\ res[p].kind = "LocationHasInventory"
        /\ ops = 2
        /\ DOMAIN mem[p] = {cur[p].src}
        /\ Cardinality(DOMAIN mem[p][cur[p].src].inventory) = 2
        /\ target = File("full", Serialize(mem[p]))

\* C20: register_location(id), id a location id, fails with
\* LocationAlreadyExists exactly when id is in the map, and the map is then
\* unchanged (the inventory of the location is kept); otherwise it adds id
\* with an empty inventory and leaves every other location as it was.
C20_RegisterAddsOrRefuses ==
    \A p \in Procs :
        LET c == cur[p] IN
        (Returned(p) /\ c.op = "register" /\ ValidId(c.src)) =>
            /\ res[p].kind = "LocationAlreadyExists" <=> c.src \in DOMAIN c.pre
            /\ IF c.src \in DOMAIN c.pre
               THEN mem[p] = c.pre
               ELSE /\ res[p].kind \in {"OK", "StorageError"}
                    /\ DOMAIN mem[p] = DOMAIN c.pre \cup {c.src}
                    /\ mem[p][c.src] = [location_id |-> c.src, inventory |-> NoDict]
                    /\ \A l \in DOMAIN c.pre : mem[p][l] = c.pre[l]

\* A register was refused for a location that holds two items, and the
\* location still holds them.
C20_Witness ==
    \E p \in Procs :
        /\ Returned(p) /\ cur[p].op = "register"
        /\ res[p].kind = "LocationAlreadyExists"
        /\ Cardinality(DOMAIN mem[p][cur[p].src].inventory) = 2
        /\ mem[p] = cur[p].pre

\* The place of an item id in the ascending order of the ids.
IdIndex(i) == CHOOSE k \in DOMAIN IdOrder : IdOrder[k] = i

\* C21: observe_inventory of an existing location returns exactly the item
\* records of the location, each item id once with its quantity, in strictly
\* ascending order of item_id; of a missing location it fails with
\* LocationNotFound.
C21_ObserveSortedAndComplete ==
    \A p \in Procs :
        LET c == cur[p]
            items == res[p].items
        IN  (Returned(p) /\ c.op = "observe") =>
                IF c.src \notin DOMAIN mem[p]
                THEN res[p].kind = "LocationNotFound"
                ELSE /\ res[p].kind = "OK"
                     /\ Len(items) = Cardinality(DOMAIN mem[p][c.src].inventory)
                     /\ \A i \in DOMAIN mem[p][c.src].inventory :
                           \E n \in DOMAIN items :
                               /\ items[n] = [item_id |-> i,
                                              quantity |-> Qty(mem[p], c.src, i)]
                               /\ \A m \in DOMAIN items :
                                     items[m].item_id = i => m = n
                     /\ \A n \in DOMAIN items, m \in DOMAIN items :
                           n < m => IdIndex(items[n].item_id) < IdIndex(items[m].item_id)

\* observe_inventory, as the second operation of the run, has returned two
\* records, IA before IB, the quantity of IA being the smaller.
C21_Witness ==
    \E p \in Procs :
        /\ Returned(p) /\ cur[p].op = "observe" /\ res[p].kind = "OK"
        /\ ops = 2
        /\ Len(res[p].items) = 2
        /\ res[p].items[1] = [item_id |-> "IA", quantity |-> 1]
        /\ res[p].items[2] = [item_id |-> "IB", quantity |-> 2]

\* The number of arguments an operation takes.
Arity(operation) ==
    CASE operation \in {"REGISTER", "UNREGISTER", "OBSERVE"} -> 1
      [] operation \in {"INCREMENT", "DECREMENT"} -> 3
      [] operation = "TRANSFER" -> 4

\* A command line of one of the kinds the adapter is to reject.
RejectedLine(tokens) ==
    \/ Len(tokens) = 1
    \/ /\ Len(tokens) >= 2
       /\ LET domain == Upper(tokens[1])
              operation == Upper(tokens[2])
              args == SubSeq(tokens, 3, Len(tokens))
              known == /\ domain \in {"LOCATION", "INVENTORY"}
                       /\ domain = "LOCATION" => operation \in {"REGISTER", "UNREGISTER"}
                       /\ domain = "INVENTORY" =>
                              operation \in {"INCREMENT", "DECREMENT", "TRANSFER", "OBSERVE"}
          IN  \/ ~known
              \/ /\ known
                 /\ \/ Len(args) # Arity(operation)
                    \/ /\ Len(args) = Arity(operation)
                       /\ \/ \E k \in 1..(IF Arity(operation) = 1 THEN 1
                                          ELSE Arity(operation) - 1) :
                                 args[k] \notin LocIds \cup ItemIds
                          \/ /\ Arity(operation) > 1
                             /\ args[Arity(operation)] \notin
                                    {QuantityText(q) : q \in 1..MaxQty}

\* A command of the adapter has been answered.
Answered(p) == Returned(p) /\ "line" \in DOMAIN cur[p]

C22_AnswerNeverRaises ==
    \A p \in Procs :
        Answered(p) =>
            LET reply == Reply(cur[p].op, res[p]) IN
            /\ ~reply.raised
            /\ res[p].kind \notin {"OK", "blank"} =>
                   /\ Len(reply.lines) = 1
                   /\ Head(reply.lines[1]) = "ERR:"
            /\ RejectedLine(cur[p].line) =>
                   /\ res[p].kind = "InvalidCommand"
                   /\ cur[p].op = "none"
                   /\ mem[p] = cur[p].pre

C22_RejectedChangesNothing ==
    \A p \in Procs :
        (/\ cur'[p] # cur[p]
         /\ "line" \in DOMAIN cur'[p]
         /\ RejectedLine(cur'[p].line)) =>
            /\ pc[p] = "idle"
            /\ UNCHANGED <<target, temp, lock, pc, mem, waited>>

\* C22: execute_command never raises; every manager error and every
\* validation error comes back as a one-line reply that starts with "ERR: ";
\* a line with fewer than two words, an unknown domain or operation, a wrong
\* number of arguments, an invalid identifier, or a quantity that is no
\* integer or not positive calls no manager operation and leaves the map in
\* memory, the state file, the temporary file and the lock as they were.
C22_AdapterRepliesAndRejects ==
    []C22_AnswerNeverRaises /\ [][C22_RejectedChangesNothing]_vars

\* C22 witness: the manager built from the stocked file was sent a decrement
\* whose quantity is no integer and answered with the error reply, the map
\* and the file untouched.
C22_Witness ==
    /\ Answered(Watched)
    /\ ops = 2
    /\ cur[Watched].line = <<"INVENTORY", "DECREMENT", "A", "IA", "nope">>
    /\ Reply(cur[Watched].op, res[Watched]).lines = << <<"ERR:", "InvalidCommand">> >>
    /\ Qty(mem[Watched], "A", "IA") = 2
    /\ target = File("full", Serialize(mem[Watched]))

\* The preconditions of the mutating call c hold in the map before it.
PreconditionsPass(c) ==
    CASE c.op = "register" -> ValidId(c.src) /\ c.src \notin DOMAIN c.pre
      [] c.op = "unregister" ->
            c.src \in DOMAIN c.pre /\ DOMAIN c.pre[c.src].inventory = {}
      [] c.op = "increment" -> c.src \in DOMAIN c.pre /\ c.qty > 0 /\ ValidId(c.item)
      [] c.op = "decrement" ->
            c.src \in DOMAIN c.pre /\ c.qty > 0 /\ c.qty <= Qty(c.pre, c.src, c.item)
      [] c.op = "transfer" -> TransferPreconditions(c)
      [] OTHER -> FALSE

\* The step in which the one manager at work starts a call.
StartsCall(p) == pc[p] = "idle" /\ ops' = ops + 1

\* C23: a mutating call whose preconditions pass enters save in the step that
\* makes its changes to the map, and the map stays as it is until the save
\* has returned; a call whose precondition fails, and observe_inventory,
\* return without entering save; save is entered only when a call starts, so
\* once per call, and a save that fails returns StorageError to the caller
\* and is not entered again.
C23_SaveOncePerChange ==
    [][\A p \in Procs :
          /\ StartsCall(p) =>
                 IF PreconditionsPass(cur'[p])
                 THEN pc'[p] = "s_acq" /\ res'[p].kind = "pending"
                 ELSE /\ pc'[p] = "idle"
                      /\ mem'[p] = mem[p]
                      /\ res'[p].kind = "OK" <=> cur'[p].op = "observe"
                                                  /\ cur'[p].src \in DOMAIN mem[p]
          /\ (pc'[p] = "s_acq" /\ pc[p] # "s_acq") => StartsCall(p)
          /\ pc[p] \in SavePcs =>
                 /\ mem'[p] = mem[p] /\ cur'[p] = cur[p]
                 /\ pc'[p] \in SavePcs \cup {"idle"}
                 /\ pc'[p] = "idle" => res'[p].kind \in {"OK", "StorageError"}]_vars

\* C23 witness: the save of a transfer that moved stock has failed; the call
\* returned StorageError with the changed map in memory.
C23_Witness ==
    /\ Returned(Watched)
    /\ cur[Watched].op = "transfer"
    /\ cur[Watched].src # cur[Watched].dst
    /\ res[Watched].kind = "StorageError"
    /\ mem[Watched] # cur[Watched].pre
    /\ ops = 2

\* The step in which process p starts the call that cur records from then on.
CallStarts(p) == pc[p] = "idle" /\ cur'[p] # cur[p]

\* C24: once constructed, a manager's map changes only in its own calls, and
\* what a call does is fixed by that map alone: whether the preconditions
\* pass and which records observe_inventory returns are those of the map in
\* memory, whatever snapshot another process has put in the state file since.
C24_OutcomeFromOwnMap ==
    [][\A p \in Procs :
          /\ CallStarts(p) =>
                 /\ cur'[p].pre = mem[p]
                 /\ IF cur'[p].op = "observe"
                    THEN /\ mem'[p] = mem[p]
                         /\ res'[p] = IF cur'[p].src \in DOMAIN mem[p]
                                      THEN Result("OK", 0, 0,
                                                  get_sorted_items(mem[p][cur'[p].src]))
                                      ELSE Plain("LocationNotFound")
                    ELSE IF PreconditionsPass(cur'[p])
                    THEN pc'[p] = "s_acq"
                    ELSE /\ pc'[p] = "idle"
                         /\ mem'[p] = mem[p]
                         /\ res'[p].kind \in PreconditionErrors
          /\ mem'[p] # mem[p] =>
                 \/ pc[p] = "l_read"
                 \/ pc'[p] = "killed"
                 \/ CallStarts(p) /\ cur'[p].op \in MutatingOps]_vars

\* C24 witness: a process read location A from its own map, which still
\* holds the item, after the other process had emptied A and saved.
C24_Witness ==
    \E p \in Procs, q \in Procs :
        /\ p # q
        /\ Returned(p) /\ cur[p].op = "observe" /\ cur[p].src = "A"
        /\ res[p].kind = "OK" /\ Len(res[p].items) = 1
        /\ Returned(q) /\ cur[q].op = "decrement" /\ res[q].kind = "OK"
        /\ target = File("full", Serialize(mem[q]))
        /\ DocQty(target.doc, "A", "IA") = 0

\* The first precondition of the stock call c that fails when the tests are
\* made in the order location (source, then destination), quantity, item,
\* sufficiency; kind "none" when all pass.
FirstFailure(c) ==
    LET failure(kind, detail) == [kind |-> kind, detail |-> detail] IN
    IF c.src \notin DOMAIN c.pre THEN failure("LocationNotFound", c.src)
    ELSE IF c.op = "transfer" /\ c.dst \notin DOMAIN c.pre
    THEN failure("LocationNotFound", c.dst)
    ELSE IF c.qty <= 0 THEN failure("ValueError", "")
    ELSE IF c.op = "increment"
    THEN IF ValidId(c.item) THEN failure("none", "") ELSE failure("ValueError", "")
    ELSE IF c.item \notin DOMAIN c.pre[c.src].inventory THEN failure("ItemNotFound", "")
    ELSE IF c.qty > Qty(c.pre, c.src, c.item) THEN failure("InsufficientQuantity", "")
    ELSE failure("none", "")

\* C25: increment, decrement and transfer test their preconditions in the
\* order location existence (source before destination), quantity > 0, item
\* presence, sufficiency, and raise the error of the first test that fails:
\* LocationNotFound naming the first missing location also when the quantity
\* is not positive, the validation error for a non-positive quantity also
\* when the item is absent; the map, the files and the lock stay as they were.
C25_FirstFailingTestDecides ==
    [][\A p \in Procs :
          (StartsCall(p) /\ cur'[p].op \in {"increment", "decrement", "transfer"}) =>
              LET first == FirstFailure(cur'[p]) IN
              IF first.kind = "none" THEN pc'[p] = "s_acq"
              ELSE /\ res'[p].kind = first.kind
                   /\ res'[p].detail = first.detail
                   /\ UNCHANGED <<mem, target, temp, lock, pc>>]_vars

\* C25 witness: a decrement of quantity 0 of an item the stocked location
\* does not hold was refused with the validation error.
C25_Witness ==
    LET c == cur[Watched] IN
    /\ Returned(Watched) /\ c.op = "decrement" /\ c.qty = 0
    /\ c.src \in DOMAIN c.pre
    /\ c.item \notin DOMAIN c.pre[c.src].inventory
    /\ DOMAIN c.pre[c.src].inventory # {}
    /\ res[Watched].kind = "ValueError"
    /\ mem[Watched] = c.pre
    /\ ops = 2

\* The call c is a transfer from a location to itself whose preconditions hold.
TransferInPlace(c) == c.op = "transfer" /\ c.src = c.dst /\ TransferPreconditions(c)

C26_InPlaceKeepsInventory ==
    \A p \in Procs :
        (cur[p].op \in MutatingOps /\ TransferInPlace(cur[p])) =>
            /\ mem[p] = cur[p].pre
            /\ Returned(p) =>
                   /\ res[p].kind \in {"OK", "StorageError"}
                   /\ res[p].kind = "OK" => target = File("full", Serialize(mem[p]))

C26_InPlacePersistsOnce ==
    \A p \in Procs :
        (StartsCall(p) /\ TransferInPlace(cur'[p])) => pc'[p] = "s_acq"

\* C26: a transfer from a location to itself, of a quantity the location
\* holds, passes its preconditions and leaves the inventory of the location,
\* ids and quantities, as it was, also when the whole quantity is moved; it
\* enters save once, and when save returns normally the state file holds the
\* snapshot of the unchanged map. It fails only if save fails.
C26_TransferInPlace ==
    []C26_InPlaceKeepsInventory /\ [][C26_InPlacePersistsOnce]_vars

\* C26 witness: the whole quantity of an item was transferred from A to A,
\* next to another item held at A, and the call has returned normally.
C26_Witness ==
    LET c == cur[Watched] IN
    /\ Returned(Watched) /\ TransferInPlace(c)
    /\ c.src = "A" /\ c.qty = Qty(c.pre, "A", c.item) /\ c.qty = MaxQty
    /\ DOMAIN c.pre["A"].inventory = ItemIds
    /\ res[Watched].kind = "OK"
    /\ mem[Watched]["A"].inventory = c.pre["A"].inventory
    /\ ops = 2

\* The quantity of item i summed over the locations of a map.
Total(locations, i) ==
    LET sum[L \in SUBSET LocIds] ==
            IF L = {} THEN 0
            ELSE LET l == CHOOSE x \in L : TRUE
                 IN  Qty(locations, l, i) + sum[L \ {l}]
    IN  sum[LocIds]

C27_TotalIsTally ==
    \A p \in Procs :
        (Returned(p) /\ "net" \in DOMAIN cur[p]) =>
            \A i \in ItemIds : Total(mem[p], i) = Settled(cur[p], res[p])[i]

C27_OthersKeepTotal ==
    \A p \in Procs :
        (/\ "net" \in DOMAIN cur'[p]
         /\ \/ StartsCall(p) /\ cur'[p].op \notin {"increment", "decrement"}
            \/ StartsCall(p) /\ ~PreconditionsPass(cur'[p])) =>
            \A i \in ItemIds : Total(mem'[p], i) = Total(mem[p], i)

\* C27: in a single process started without a state file, whenever a call
\* has returned, the quantity of every item summed over the locations of the
\* map equals the quantities of the increments that succeeded less those of
\* the decrements that succeeded; register, unregister, transfer, observe and
\* a call that fails a precondition leave that sum as it was.
C27_TotalIsNetOfSuccesses ==
    []C27_TotalIsTally /\ [][C27_OthersKeepTotal]_vars

\* C28: observe_inventory changes neither the map in memory nor the state
\* file nor the temporary file, and takes no part in the locking: the lock
\* and the count of polls stay as they are, the call returns in its one step
\* with the records of an existing location or LocationNotFound, never with
\* StorageError, also while another process holds the lock.
C28_ObserveOnlyReads ==
    [][\A p \in Procs :
          (CallStarts(p) /\ cur'[p].op = "observe") =>
              /\ UNCHANGED <<mem, target, temp, lock, waited, pc>>
              /\ res'[p].kind = IF cur'[p].src \in DOMAIN mem[p]
                                THEN "OK" ELSE "LocationNotFound"]_vars

\* C28 witness: a process got the records of a location from
\* observe_inventory while the other process held the lock inside its save.
C28_Witness ==
    \E p \in Procs, q \in Procs :
        /\ p # q
        /\ Returned(p) /\ cur[p].op = "observe"
        /\ res[p].kind = "OK" /\ Len(res[p].items) = 1
        /\ lock = q /\ pc[q] \in {"s_write", "s_close", "s_replace"}
        /\ ops = 2

====
